---- MODULE Spec2Model ----
(***************************************************************************)
(* Model of mrainet/mraicnn.py (class MRAIConvolutionalNeuralNetwork):     *)
(* the sparse label map (matrix2sparse), the row sampler (subsample_rows), *)
(* the patch extractor (index2patch), the pair sampler (sample_pairs), the *)
(* training loop (train) and the segmentation driver (segment_image).      *)
(*                                                                         *)
(* Arrays are 0-indexed in the source.  A 1-D array is a sequence whose    *)
(* element n (0-based) is s[n+1]; a 2-D array is a record                  *)
(* [shape |-> <<h, w>>, v |-> sequence of h rows of length w].             *)
(***************************************************************************)
EXTENDS Integers, Sequences, FiniteSets, TLC

VARIABLES
    pc,      \* position of the running call: "call", "done", or a train state
    call,    \* the arguments of the call under way (a record, named as in the source)
    ret,     \* what the call returned or raised: [ok |-> BOOLEAN, ...]
    i,       \* train: index of the current source subject
    j,       \* train: index of the current target subject
    Yi,      \* train: sparse label array of source subject i
    fits,    \* train: the net.fit calls made so far, in order
    samples  \* train: the sample_pairs calls made so far, in order

vars == <<pc, call, ret, i, j, Yi, fits, samples>>
trainVars == <<i, j, Yi, fits, samples>>

-----------------------------------------------------------------------------
(* Bounds of the model *)

\* most cells (height * width) of a label image drawn for matrix2sparse
MaxCells == 6
\* largest edge drawn for matrix2sparse
MaxEdge == 2
\* most rows of an array drawn for subsample_rows
MaxRows == 4
\* largest image height and width drawn for index2patch
MaxH == 4
MaxW == 4
\* most indices drawn for index2patch
MaxIdx == 2
\* most cells a class labels in a label image drawn for sample_pairs
MaxPer == 2
\* largest number of rows to draw per class (num_draw) for sample_pairs
MaxDraw == 2
\* the largest number of source and of target subjects train is given
MaxSrc == 3
MaxTgt == 2
\* the largest patch height and width segment_image is given
MaxPatch == 5
WideEdge == 258

-----------------------------------------------------------------------------
(* numpy primitives, as the source uses them *)

\* the unknown label (NaN) of a label image
NaN == -1

isnan(x) == x = NaN

Min(a, b) == IF a < b THEN a ELSE b
Max(a, b) == IF a > b THEN a ELSE b

\* np.arange(a, b)
arange(a, b) == [n \in 1..Max(b - a, 0) |-> a + n - 1]

\* the 0-based positions a[start:stop] selects on an axis of length n
PySlice(start, stop, n) ==
    LET norm(k) == IF k < 0 THEN Max(k + n, 0) ELSE Min(k, n)
    IN  arange(norm(start), norm(stop))

\* X[rows, cols]: the sub-array at the given 0-based rows and columns
SubArray(X, rows, cols) ==
    [shape |-> <<Len(rows), Len(cols)>>,
     v |-> [a \in 1..Len(rows) |->
              [b \in 1..Len(cols) |-> X.v[rows[a] + 1][cols[b] + 1]]]]

\* X[r0:r1, c0:c1] of a 2-D array
Slice2D(X, r0, r1, c0, c1) ==
    SubArray(X, PySlice(r0, r1, X.shape[1]), PySlice(c0, c1, X.shape[2]))

\* M.T of a 2-D array
Transpose(M) ==
    [shape |-> <<M.shape[2], M.shape[1]>>,
     v |-> [a \in 1..M.shape[2] |-> [b \in 1..M.shape[1] |-> M.v[b][a]]]]

\* M.ravel(): the entries of a 2-D array in row-major order
ravel(M) ==
    [n \in 1..(M.shape[1] * M.shape[2]) |->
        M.v[((n - 1) \div M.shape[2]) + 1][((n - 1) % M.shape[2]) + 1]]

\* meshgrid with indexing 'ij' taken for 'xy': the arrays are not transposed
meshgrid_ij(x, y) ==
    <<[shape |-> <<Len(x), Len(y)>>,
       v |-> [a \in 1..Len(x) |-> [b \in 1..Len(y) |-> x[a]]]],
      [shape |-> <<Len(x), Len(y)>>,
       v |-> [a \in 1..Len(x) |-> [b \in 1..Len(y) |-> y[b]]]]>>

\* np.meshgrid(x, y), indexing 'xy': two arrays of shape (len(y), len(x))
meshgrid(x, y) ==
    <<[shape |-> <<Len(y), Len(x)>>,
       v |-> [a \in 1..Len(y) |-> [b \in 1..Len(x) |-> x[b]]]],
      [shape |-> <<Len(y), Len(x)>>,
       v |-> [a \in 1..Len(y) |-> [b \in 1..Len(x) |-> y[a]]]]>>

-----------------------------------------------------------------------------
(* matrix2sparse *)

\* np.vstack((ti, tj, xv)).T, and the rows with a NaN class removed if asked
StackRows(ti, tj, xv, remove_nans) ==
    LET nonan(row) == ~isnan(row[3])
    IN  IF Len(ti) # Len(xv) \/ Len(tj) # Len(xv)
        THEN [ok |-> FALSE, err |-> "ValueError: vstack"]
        ELSE [ok |-> TRUE,
              val |-> IF remove_nans
                      THEN SelectSeq([n \in 1..Len(xv) |-> <<ti[n], tj[n], xv[n]>>],
                                     nonan)
                      ELSE [n \in 1..Len(xv) |-> <<ti[n], tj[n], xv[n]>>]]

\* the rows of the coordinate grids g = (tx, ty) and of the cropped array Xc
GridRows(g, Xc, remove_nans) ==
    StackRows(ravel(Transpose(g[1])), ravel(Transpose(g[2])), ravel(Xc),
              remove_nans)

\* matrix2sparse(X, edge, remove_nans): the rows (i, j, X[i, j]) of the cells
\* inside the edge, or the error np.vstack raises on unequal lengths
matrix2sparse(X, edge, remove_nans) ==
    GridRows(meshgrid(arange(edge[1], X.shape[1] - edge[1]),
                      arange(edge[2], X.shape[2] - edge[2])),
             Slice2D(X, edge[1], X.shape[1] - edge[1],
                     edge[2], X.shape[2] - edge[2]),
             remove_nans)

-----------------------------------------------------------------------------
(* subsample_rows *)

\* rn.choice with replace=True: an index may be drawn twice
choice_replace(N, size) == [1..size -> 0..N - 1]

\* rn.choice(np.arange(N), size=size, replace=False): the draws it can return
choice(N, size) ==
    {s \in [1..size -> 0..N - 1] :
        \A a, b \in 1..size : a # b => s[a] # s[b]}

\* subsample_rows(X, num_draw), index being the draw rn.choice made
subsample_rows(X, num_draw, index) ==
    IF num_draw > Len(X)
    THEN [ok |-> FALSE,
          err |-> "ValueError: Number of samples to draw larger than array."]
    ELSE [ok |-> TRUE, index |-> index,
          val |-> [n \in 1..Len(index) |-> X[index[n] + 1]]]

\* the draws rn.choice can make in subsample_rows(X, num_draw); none is made
\* when the call raises before it
RowDraws(X, num_draw) ==
    IF num_draw > Len(X) THEN {<<>>} ELSE choice(Len(X), num_draw)

-----------------------------------------------------------------------------
(* index2patch *)

\* int((n - 1)/2): the step from the centre of a patch side of length n
step(n) == (n - 1) \div 2

\* np.unravel_index(k, shape) of a 2-D shape: (row, col), row-major
unravel_index(k, shape) ==
    IF k < 0 \/ k >= shape[1] * shape[2]
    THEN [ok |-> FALSE, err |-> "ValueError: index out of bounds"]
    ELSE [ok |-> TRUE, val |-> <<k \div shape[2], k % shape[2]>>]

\* np.ravel_multi_index((row, col), shape) of a 2-D shape
ravel_multi_index(rc, shape) ==
    IF rc[1] < 0 \/ rc[1] >= shape[1] \/ rc[2] < 0 \/ rc[2] >= shape[2]
    THEN [ok |-> FALSE, err |-> "ValueError: invalid entry in coordinates array"]
    ELSE [ok |-> TRUE, val |-> rc[1] * shape[2] + rc[2]]

\* the value an element of a dtype='uint8' array takes when x is stored in it
uint8(x) == x % 256

\* a - b and a + b of a uint8 array element a and a Python int b: the result
\* stays uint8 and wraps where numpy does not promote the Python int
\* (nep50), and is a wide integer where it does
u8_sub(a, b, nep50) == IF nep50 THEN (a - b) % 256 ELSE a - b
u8_add(a, b, nep50) == IF nep50 THEN (a + b) % 256 ELSE a + b

\* patches[n, :, :, 0] = sub: numpy broadcasts sub to the patch shape or raises
AssignPatch(sub, patch_size) ==
    IF /\ sub.shape[1] \in {patch_size[1], 1}
       /\ sub.shape[2] \in {patch_size[2], 1}
    THEN [ok |-> TRUE,
          val |-> [shape |-> <<patch_size[1], patch_size[2], 1>>,
                   v |-> [p \in 1..patch_size[1] |-> [q \in 1..patch_size[2] |->
                            sub.v[IF sub.shape[1] = 1 THEN 1 ELSE p]
                                 [IF sub.shape[2] = 1 THEN 1 ELSE q]]]]]
    ELSE [ok |-> FALSE, err |-> "ValueError: could not broadcast input array"]

\* w[n], h[n] = np.unravel_index(index[n], X.shape): w takes the row and h
\* the column, each stored in a uint8 array
HWOfUnravelled(u) ==
    IF u.ok THEN [ok |-> TRUE, h |-> uint8(u.val[2]), w |-> uint8(u.val[1])]
    ELSE u

HW1D(X, k) == HWOfUnravelled(unravel_index(k, X.shape))

\* h = index[:, 0]; w = index[:, 1]
HW2D(row) == [ok |-> TRUE, h |-> row[1], w |-> row[2]]

\* X[h - vstep : h + vstep + 1, w - hstep : w + hstep + 1] assigned to a
\* patch; wraps tells that h and w are uint8 and the arithmetic stays uint8
PatchAround(X, h, w, vstep, hstep, patch_size, wraps) ==
    AssignPatch(Slice2D(X, u8_sub(h, vstep, wraps),
                           u8_add(u8_add(h, vstep, wraps), 1, wraps),
                           u8_sub(w, hstep, wraps),
                           u8_add(u8_add(w, hstep, wraps), 1, wraps)),
                patch_size)

\* the first sample of the loop whose slice cannot be assigned to its patch
FirstFailed(patches) ==
    CHOOSE n \in 1..Len(patches) :
        ~patches[n].ok /\ \A m \in 1..n - 1 : patches[m].ok

\* the (h, w) of sample n, around which the loop was slicing when it raised
FailedAt(hw, n) == <<hw[n].h, hw[n].w>>

\* the result of index2patch given the patch of each sample
PatchArray(hw, patches, patch_size) ==
    IF \E n \in 1..Len(patches) : ~patches[n].ok
    THEN [ok |-> FALSE, err |-> "ValueError: could not broadcast input array",
          at |-> FailedAt(hw, FirstFailed(patches))]
    ELSE [ok |-> TRUE,
          shape |-> <<Len(patches), patch_size[1], patch_size[2], 1>>,
          val |-> [n \in 1..Len(patches) |-> patches[n].val],
          at |-> [n \in 1..Len(patches) |-> <<hw[n].h, hw[n].w>>]]

\* the loop that slices the patch of each sample, given its (h, w)
SlicePatches(X, hw, patch_size, wraps) ==
    IF \E n \in 1..Len(hw) : ~hw[n].ok
    THEN [ok |-> FALSE, err |-> "ValueError: index out of bounds"]
    ELSE IF /\ wraps /\ Len(hw) > 0
            /\ (step(patch_size[1]) > 255 \/ step(patch_size[2]) > 255)
    THEN [ok |-> FALSE, err |-> "OverflowError: Python integer out of bounds for uint8"]
    ELSE PatchArray(hw,
                    [n \in 1..Len(hw) |->
                        PatchAround(X, hw[n].h, hw[n].w, step(patch_size[1]),
                                    step(patch_size[2]), patch_size, wraps)],
                    patch_size)

\* index2patch(X, index) with self.patch_size = patch_size.  index is
\* [ndim |-> number of axes, v |-> its entries along axis 0]: linear indices
\* when ndim = 1, (row, col) rows when ndim = 2.  In the result, at is the
\* (h, w) each patch was sliced around.  nep50 tells whether numpy keeps
\* uint8 arithmetic with a Python int in uint8.
index2patch(X, index, patch_size, nep50) ==
    IF ~(index.ndim > 0)
    THEN [ok |-> FALSE, err |-> "ValueError: Index is an empty array."]
    ELSE IF index.ndim \notin {1, 2}
    THEN [ok |-> FALSE, err |-> "ValueError: Index has wrong shape."]
    ELSE SlicePatches(X,
                      [n \in 1..Len(index.v) |->
                          IF index.ndim = 1 THEN HW1D(X, index.v[n])
                          ELSE HW2D(index.v[n])],
                      patch_size, nep50 /\ index.ndim = 1)

-----------------------------------------------------------------------------
(* sample_pairs *)

\* np.unique(y[:, 2]): the values of the class column
unique(y) == {y[n][3] : n \in 1..Len(y)}

\* np.intersect1d(ar1, ar2) of two sets of values: NaN compares unequal to
\* itself and is never common
intersect1d(ar1, ar2) == {c \in ar1 \cap ar2 : ~isnan(c)}

\* np.setdiff1d(ar1, ar2): the values of ar1 that are not in ar2
setdiff1d(ar1, ar2) == {c \in ar1 : c \notin ar2 \/ isnan(c)}

\* the elements of a finite set of integers in ascending order
RECURSIVE sorted(_)
sorted(S) ==
    IF S = {} THEN <<>>
    ELSE LET m == CHOOSE x \in S : \A z \in S : x <= z
         IN  <<m>> \o sorted(S \ {m})

\* gen_index_combs((x0, x1)): the rows (x0[a], x1[b]), x0 outermost
gen_index_combs(x0, x1) ==
    [n \in 1..(Len(x0) * Len(x1)) |->
        <<x0[((n - 1) \div Len(x1)) + 1], x1[((n - 1) % Len(x1)) + 1]>>]

\* what the cast of a float64 outside 0..255 to uint8 gives: C leaves the
\* conversion undefined, and the builds of numpy either keep the low eight
\* bits of the integer part or saturate
FloatCasts == {"wrap", "saturate"}

\* the cast of the float64 coordinate x by .astype('uint8') on a build that
\* casts as fcast; a value within 0..255 is kept by every build
astype_uint8(x, fcast) ==
    IF x \in 0..255 THEN x
    ELSE IF fcast = "wrap" THEN x % 256
    ELSE 255

\* y[y[:, 2] == classk, :]: the rows of class classk
RowsOfClass(y, classk) ==
    LET isk(row) == row[3] = classk
    IN  SelectSeq(y, isk)

\* y[y[:, 2] == classk, :2].astype('uint8'): the (row, col) of the rows of
\* class classk, each stored as uint8
IndexOfClass(y, classk, fcast) ==
    LET yk == RowsOfClass(y, classk)
    IN  [n \in 1..Len(yk) |->
           <<astype_uint8(yk[n][1], fcast), astype_uint8(yk[n][2], fcast)>>]

\* np.ravel_multi_index(index.T, shape) of an array of (row, col) rows
RavelRows(index, shape) ==
    IF \E n \in 1..Len(index) : ~ravel_multi_index(index[n], shape).ok
    THEN [ok |-> FALSE, err |-> "ValueError: invalid entry in coordinates array"]
    ELSE [ok |-> TRUE,
          val |-> [n \in 1..Len(index) |-> ravel_multi_index(index[n], shape).val]]

\* np.zeros((*patch_size, 1))
ZeroPatch(patch_size) ==
    [shape |-> <<patch_size[1], patch_size[2], 1>>,
     v |-> [p \in 1..patch_size[1] |-> [q \in 1..patch_size[2] |-> 0]]]

\* a row of the preallocated arrays A, B, a, b, S; group is the value of cnt
\* under which the row was last written (-1: never), cls the classes and
\* img the images ("X", "Z") its two patches were drawn for, at the (h, w)
\* each patch was sliced around
ZeroRow(patch_size) ==
    [A |-> ZeroPatch(patch_size), B |-> ZeroPatch(patch_size),
     a |-> 0, b |-> 0, S |-> 0,
     group |-> -1, cls |-> <<0, 0>>, img |-> <<"", "">>,
     at |-> << <<-1, -1>>, <<-1, -1>> >>]

\* rows with the rows new written at the 0-based positions ix; one new row
\* is broadcast to all of them
WriteAt(rows, ix, g, new) ==
    [n \in 1..Len(rows) |->
        IF \E m \in 1..Len(ix) : ix[m] + 1 = n
        THEN new[IF g = 1 THEN 1 ELSE n - ix[1]]
        ELSE rows[n]]

\* the rows a group writes, given the patches pA and pB it extracted
GroupRows(pA, pB, ta, tb, sim, cnt, cls, img) ==
    [n \in 1..Len(pA.val) |->
        [A |-> pA.val[n], B |-> pB.val[n], a |-> ta, b |-> tb, S |-> sim,
         group |-> cnt, cls |-> cls, img |-> img,
         at |-> <<pA.at[n], pB.at[n]>>]]

\* A[ix] = index2patch(...), B[ix] = index2patch(...), a[ix] = ...,
\* b[ix] = ..., S[ix] = ... with ix = slice(cnt*g, (cnt+1)*g), cut at the
\* end of the arrays, and g values on the right: numpy broadcasts the g
\* values to the slice or raises.  pA and pB are what the two index2patch
\* calls give; the second is made after the first assignment.
WritePatches(rows, ix, cnt, g, pA, pB, ta, tb, sim, cls, img) ==
    IF ~pA.ok THEN pA
    ELSE IF Len(ix) # g /\ g # 1
    THEN [ok |-> FALSE, err |-> "ValueError: could not broadcast input array",
          ix |-> ix]
    ELSE IF ~pB.ok THEN pB
    ELSE [ok |-> TRUE,
          val |-> WriteAt(rows, ix, g,
                          GroupRows(pA, pB, ta, tb, sim, cnt, cls, img))]

\* the state of the loop after a group: cnt += 1
NextCnt(w, cnt) == IF ~w.ok THEN w ELSE [ok |-> TRUE, val |-> w.val, cnt |-> cnt]

\* the index array combs[:, c]
Column(combs, c) == [ndim |-> 1, v |-> [n \in 1..Len(combs) |-> combs[n][c]]]

\* one group of pairs: the patches of XA at combs[:, 0] and of XB at
\* combs[:, 1], the scanner tags ta and tb and the similarity label sim,
\* written at the slice that cnt and g = num_combs give.  prev is the state
\* of the loop, [ok, val |-> the arrays, cnt |-> the counter], before the
\* group; an error raised earlier ends the call.
PairGroup(prev, g, XA, XB, combs, ta, tb, sim, cls, img, patch_size, nep50) ==
    IF ~prev.ok THEN prev
    ELSE NextCnt(WritePatches(prev.val,
                              PySlice(prev.cnt * g, (prev.cnt + 1) * g,
                                      Len(prev.val)),
                              prev.cnt, g,
                              index2patch(XA, Column(combs, 1), patch_size, nep50),
                              index2patch(XB, Column(combs, 2), patch_size, nep50),
                              ta, tb, sim, cls, img),
                 prev.cnt + 1)

\* the loop over np.setdiff1d(classk, classes), entered in the state prev:
\* its body keeps one column of the label rows (:1), on which
\* np.ravel_multi_index raises
OtherClasses(prev, others) ==
    IF ~prev.ok THEN prev
    ELSE IF others # {}
    THEN [ok |-> FALSE,
          err |-> "ValueError: parameter multi_index must be a sequence of length 2"]
    ELSE prev

\* the three groups of similar pairs of class classk, given the linear
\* indices drawn for it, and then the loop over the other classes
ClassGroups(prev, X, Z, num_draw, patch_size, nep50, classes, classk, index_yk, index_uk) ==
    IF ~index_yk.ok THEN index_yk
    ELSE IF ~index_uk.ok THEN index_uk
    ELSE OtherClasses(
           PairGroup(
             PairGroup(
               PairGroup(prev, num_draw[1] * num_draw[1], X, X,
                         gen_index_combs(index_yk.val, index_yk.val),
                         0, 0, 1, <<classk, classk>>, <<"X", "X">>,
                         patch_size, nep50),
               num_draw[1] * num_draw[2], X, Z,
               gen_index_combs(index_yk.val, index_uk.val),
               0, 1, 1, <<classk, classk>>, <<"X", "Z">>, patch_size, nep50),
             num_draw[2] * num_draw[2], Z, Z,
             gen_index_combs(index_uk.val, index_uk.val),
             1, 1, 1, <<classk, classk>>, <<"Z", "Z">>, patch_size, nep50),
           setdiff1d({classk}, classes))

\* np.ravel_multi_index of the rows subsample_rows drew
RavelDrawn(drawn, shape) ==
    IF ~drawn.ok THEN drawn ELSE RavelRows(drawn.val, shape)

\* the linear indices of both images, the source rows being drawn first
BothIndices(sy, su, X, Z) ==
    IF ~sy.ok THEN <<sy, sy>>
    ELSE IF ~su.ok THEN <<su, su>>
    ELSE <<RavelDrawn(sy, X.shape), RavelDrawn(su, Z.shape)>>

\* the groups of class classk, given both = (index_yk, index_uk)
ClassIndices(prev, X, Z, num_draw, patch_size, nep50, classes, classk, both) ==
    ClassGroups(prev, X, Z, num_draw, patch_size, nep50, classes, classk,
                both[1], both[2])

\* the body of the loop over classes for class classk, entered in the state
\* prev; d.y and d.u are the draws rn.choice makes for the source and the
\* target rows of the class
ClassStep(prev, X, y, Z, u, num_draw, patch_size, nep50, fcast, classes, classk, d) ==
    ClassIndices(prev, X, Z, num_draw, patch_size, nep50, classes, classk,
                 BothIndices(subsample_rows(IndexOfClass(y, classk, fcast),
                                            num_draw[1], d.y),
                             subsample_rows(IndexOfClass(u, classk, fcast),
                                            num_draw[2], d.u),
                             X, Z))

\* the loop over classes from its k-th class on
RECURSIVE ClassLoop(_, _, _, _, _, _, _, _, _, _, _, _)
ClassLoop(prev, X, y, Z, u, num_draw, patch_size, nep50, fcast, cs, k, draws) ==
    IF ~prev.ok \/ k > Len(cs) THEN prev
    ELSE ClassLoop(ClassStep(prev, X, y, Z, u, num_draw, patch_size, nep50,
                             fcast, {cs[n] : n \in 1..Len(cs)}, cs[k], draws[k]),
                   X, y, Z, u, num_draw, patch_size, nep50, fcast, cs, k + 1,
                   draws)

\* the classes sample_pairs loops over, ascending
CommonClasses(y, u) == sorted(intersect1d(unique(y), unique(u)))

\* total_num_draw, the length of the preallocated arrays
TotalNumDraw(num_draw, num_classes) ==
    (num_draw[1] * num_draw[1]) * num_classes * (num_classes - 1)
    + (num_draw[1] * num_draw[2]) * num_classes * (num_classes - 1)
    + (num_draw[2] * num_draw[2]) * num_classes * (num_classes - 1)

\* what sample_pairs returns after the loop: the rows of [A, B, a, b], S
Returned(r, classes) ==
    IF ~r.ok THEN r ELSE [ok |-> TRUE, rows |-> r.val, classes |-> classes]

\* sample_pairs from the preallocation on, given the common classes
PairsOfClasses(X, y, Z, u, num_draw, patch_size, nep50, fcast, classes, draws) ==
    Returned(ClassLoop([ok |-> TRUE,
                        val |-> [n \in 1..TotalNumDraw(num_draw, Len(classes)) |->
                                   ZeroRow(patch_size)],
                        cnt |-> 0],
                       X, y, Z, u, num_draw, patch_size, nep50, fcast, classes, 1,
                       draws),
             classes)

\* sample_pairs(X, y, Z, u, num_draw) with self.patch_size = patch_size, on
\* a build of numpy given by nep50 and fcast; draws[k] holds the draws
\* rn.choice makes for the k-th class
sample_pairs(X, y, Z, u, num_draw, patch_size, nep50, fcast, draws) ==
    IF num_draw[1] > Len(y) \/ num_draw[2] > Len(u)
    THEN [ok |-> FALSE, err |-> "ValueError: Insufficient labels provided."]
    ELSE PairsOfClasses(X, y, Z, u, num_draw, patch_size, nep50, fcast,
                        CommonClasses(y, u), draws)

\* the sequences d of length k with d[m] in D[m] for each m
RECURSIVE Product(_, _)
Product(D, k) ==
    IF k = 0 THEN {<<>>}
    ELSE {Append(d, x) : d \in Product(D, k - 1), x \in D[k]}

\* the draws rn.choice can make in one sample_pairs call: for each class,
\* in order, one draw among the source and one among the target rows
PairDraws(y, u, num_draw) ==
    LET cs == CommonClasses(y, u)
        D == [k \in 1..Len(cs) |->
                {[y |-> dy, u |-> du] :
                    dy \in RowDraws(RowsOfClass(y, cs[k]), num_draw[1]),
                    du \in RowDraws(RowsOfClass(u, cs[k]), num_draw[2])}]
    IN  Product(D, Len(cs))

-----------------------------------------------------------------------------
(* Inputs *)

\* the tissue classes of the label images drawn (classes=[1, 2, 3])
Classes == {1, 2, 3}

\* the 2-D arrays of shape (h, w) with entries in vals
Arrays(h, w, vals) ==
    {[shape |-> <<h, w>>, v |-> f] : f \in [1..h -> [1..w -> vals]]}

idle == [op |-> "none"]
trainIdle == /\ i = 0 /\ j = 0 /\ Yi = <<>> /\ fits = <<>> /\ samples = <<>>

-----------------------------------------------------------------------------
(* Specification of matrix2sparse: any label image, any edge *)

InitSparse ==
    /\ pc = "call"
    /\ \E h \in 1..MaxCells, w \in 1..MaxCells, e0 \in 0..MaxEdge,
          e1 \in 0..MaxEdge, rn \in BOOLEAN :
         /\ h * w <= MaxCells
         /\ \E X \in Arrays(h, w, {1, 2, NaN}) :
               call = [op |-> "matrix2sparse", X |-> X, edge |-> <<e0, e1>>,
                       remove_nans |-> rn]
    /\ ret = idle
    /\ trainIdle

CallMatrix2Sparse ==
    /\ pc = "call"
    /\ call.op = "matrix2sparse"
    /\ ret' = matrix2sparse(call.X, call.edge, call.remove_nans)
    /\ pc' = "done"
    /\ UNCHANGED <<call, trainVars>>

NextSparse == CallMatrix2Sparse

SpecSparse == InitSparse /\ [][NextSparse]_vars

-----------------------------------------------------------------------------
(* Specification of subsample_rows: any array of rows, any number to draw *)

\* the arrays of at most n rows with entries in vals, two columns wide
RowArrays(n, vals) == UNION {[1..k -> vals \X vals] : k \in 0..n}

InitRows ==
    /\ pc = "call"
    /\ \E X \in RowArrays(MaxRows, 0..1), num_draw \in 0..MaxRows + 1 :
         call = [op |-> "subsample_rows", X |-> X, num_draw |-> num_draw]
    /\ ret = idle
    /\ trainIdle

CallSubsampleRows ==
    /\ pc = "call"
    /\ call.op = "subsample_rows"
    /\ \E index \in RowDraws(call.X, call.num_draw) :
         ret' = subsample_rows(call.X, call.num_draw, index)
    /\ pc' = "done"
    /\ UNCHANGED <<call, trainVars>>

NextRows == CallSubsampleRows

SpecRows == InitRows /\ [][NextRows]_vars

-----------------------------------------------------------------------------
(* Specification of index2patch: any image, linear or (row, col) indices *)

\* the image of shape (h, w) whose pixel (r, c) is 1 + r*w + c ("ramp": all
\* pixels differ), 101 + r*w + c ("rampZ": a second scan, no pixel shared
\* with "ramp") or 1 + r + c ("sum": symmetric in r and c)
Image(h, w, gen) ==
    [shape |-> <<h, w>>,
     v |-> [a \in 1..h |-> [b \in 1..w |->
              IF gen = "ramp" THEN 1 + (a - 1) * w + (b - 1)
              ELSE IF gen = "rampZ" THEN 101 + (a - 1) * w + (b - 1)
              ELSE 1 + (a - 1) + (b - 1)]]]

\* the patch sizes drawn
PatchSizes == {<<3, 3>>, <<1, 3>>}

\* the sequences over S of length at most n
SeqsUpTo(S, n) == UNION {[1..k -> S] : k \in 0..n}

\* the index arrays drawn for an image of shape (h, w): linear indices (one
\* past the end included) when ndim = 1, (row, col) rows when ndim = 2,
\* and a 0-d and a 3-d array
Indices(ndim, h, w) ==
    IF ndim = 1 THEN SeqsUpTo(0..h * w, MaxIdx)
    ELSE IF ndim = 2 THEN SeqsUpTo((0..h - 1) \X (0..w - 1), MaxIdx)
    ELSE {<<>>}

InitPatch ==
    /\ pc = "call"
    /\ \E h \in 1..MaxH, w \in 1..MaxW, gen \in {"ramp", "sum"},
          patch_size \in PatchSizes, nep50 \in BOOLEAN, ndim \in 0..3 :
         \E v \in Indices(ndim, h, w) :
            call = [op |-> "index2patch", X |-> Image(h, w, gen),
                    index |-> [ndim |-> ndim, v |-> v],
                    patch_size |-> patch_size, nep50 |-> nep50]
    /\ ret = idle
    /\ trainIdle

CallIndex2Patch ==
    /\ pc = "call"
    /\ call.op = "index2patch"
    /\ ret' = index2patch(call.X, call.index, call.patch_size, call.nep50)
    /\ pc' = "done"
    /\ UNCHANGED <<call, trainVars>>

NextPatch == CallIndex2Patch

SpecPatch == InitPatch /\ [][NextPatch]_vars

-----------------------------------------------------------------------------
(* Specification of sample_pairs: two images with their sparse label arrays *)

\* the class of cell number k (row-major) of the label image in which each
\* class c labels count[c] cells: the classes take the first cells in turn
\* (1, 2, 3, 1, 2, 3, ...), a class dropping out once it has its count, and
\* the remaining cells are unknown
RECURSIVE LabelOfCell(_, _, _)
LabelOfCell(count, k, c) ==
    IF \A d \in Classes : count[d] = 0 THEN NaN
    ELSE IF count[c] = 0 THEN LabelOfCell(count, k, (c % 3) + 1)
    ELSE IF k = 0 THEN c
    ELSE LabelOfCell([count EXCEPT ![c] = @ - 1], k - 1, (c % 3) + 1)

LabelImage(h, w, count) ==
    [shape |-> <<h, w>>,
     v |-> [a \in 1..h |-> [b \in 1..w |->
              LabelOfCell(count, (a - 1) * w + (b - 1), 1)]]]

\* the shapes of the images drawn for sample_pairs
PairShapes == {<<2, 3>>, <<3, 3>>}

\* the patch sizes drawn for sample_pairs
PairPatchSizes == {<<1, 1>>, <<3, 3>>}

InitPairs ==
    /\ pc = "call"
    /\ \E shape \in PairShapes, patch_size \in PairPatchSizes,
          county \in [Classes -> 0..MaxPer], countu \in [Classes -> 0..MaxPer],
          n0 \in 1..MaxDraw, n1 \in 1..MaxDraw, inner \in BOOLEAN,
          nep50 \in BOOLEAN :
         LET edge == IF inner THEN <<step(patch_size[1]), step(patch_size[2])>>
                     ELSE <<0, 0>>
         IN  call = [op |-> "sample_pairs",
                     X |-> Image(shape[1], shape[2], "ramp"),
                     y |-> matrix2sparse(LabelImage(shape[1], shape[2], county),
                                         edge, inner).val,
                     Z |-> Image(shape[1], shape[2], "rampZ"),
                     u |-> matrix2sparse(LabelImage(shape[1], shape[2], countu),
                                         edge, inner).val,
                     num_draw |-> <<n0, n1>>,
                     patch_size |-> patch_size, nep50 |-> nep50]
    /\ ret = idle
    /\ trainIdle

CallSamplePairs ==
    /\ pc = "call"
    /\ call.op = "sample_pairs"
    /\ \E draws \in PairDraws(call.y, call.u, call.num_draw),
          fcast \in FloatCasts :
         ret' = sample_pairs(call.X, call.y, call.Z, call.u, call.num_draw,
                             call.patch_size, call.nep50, fcast, draws)
    /\ pc' = "done"
    /\ UNCHANGED <<call, trainVars>>

NextPairs == CallSamplePairs

SpecPairs == InitPairs /\ [][NextPairs]_vars

\* sample_pairs on images with more than 256 rows and columns.  The images
\* are square and labelled on the diagonal: the pixels (d, d), d in
\* DiagSeq, on both sides of 256.
DiagSeq == <<1, 255, WideEdge - 2, WideEdge - 1>>

\* matrix2sparse(Y, remove_nans=True) of the label image Y that gives the
\* pixel (DiagSeq[k], DiagSeq[k]) the label lab[k] and no other pixel one
DiagLabels(lab) ==
    LET labelled(row) == ~isnan(row[3])
    IN  SelectSeq([k \in 1..Len(DiagSeq) |-> <<DiagSeq[k], DiagSeq[k], lab[k]>>],
                  labelled)

InitWide ==
    /\ pc = "call"
    /\ \E laby \in [1..Len(DiagSeq) -> {NaN, 1, 2}],
          labu \in [1..Len(DiagSeq) -> {NaN, 1, 2}], nep50 \in BOOLEAN :
         /\ \A k \in 1..Len(DiagSeq) : isnan(labu[k]) <=> isnan(laby[k])
         /\ \A k \in 2..Len(DiagSeq) : labu[k] = laby[k]
         /\ call = [op |-> "sample_pairs",
                     X |-> [shape |-> <<WideEdge, WideEdge>>, gen |-> "ramp"],
                     y |-> DiagLabels(laby),
                     Z |-> [shape |-> <<WideEdge, WideEdge>>, gen |-> "rampZ"],
                     u |-> DiagLabels(labu),
                     num_draw |-> <<1, 1>>,
                     patch_size |-> <<1, 1>>, nep50 |-> nep50]
    /\ ret = idle
    /\ trainIdle

\* P, S = sample_pairs(X, y, Z, u, num_draw=(1, 1)) on the images the call
\* describes, on a build that casts floats as fcast
CallSamplePairsWide ==
    /\ pc = "call"
    /\ call.op = "sample_pairs"
    /\ "gen" \in DOMAIN call.X
    /\ \E draws \in PairDraws(call.y, call.u, call.num_draw),
          fcast \in FloatCasts :
         ret' = sample_pairs(Image(call.X.shape[1], call.X.shape[2], call.X.gen),
                             call.y,
                             Image(call.Z.shape[1], call.Z.shape[2], call.Z.gen),
                             call.u, call.num_draw, call.patch_size,
                             call.nep50, fcast, draws)
    /\ pc' = "done"
    /\ UNCHANGED <<call, trainVars>>

NextWide == CallSamplePairsWide

SpecWide == InitWide /\ [][NextWide]_vars

-----------------------------------------------------------------------------
(* train: the loop over source and target subjects, one action per step.
   pc is the position in the code: "source" the head of the loop over i,
   "target" the head of the loop over j, "fit" inside the net.fit call of a
   source-target batch, "cross" the test on num_src_sub, "fitcross" inside
   the net.fit call of a source-source batch, "done" after 'Training
   complete.' is printed, "failed" after an exception left train. *)

\* the exception is swallowed and the loop goes on from where it stands
Raise_resumed(err) ==
    /\ pc' = IF pc = "fit" THEN "target" ELSE IF pc = "fitcross" THEN "cross"
             ELSE pc
    /\ ret' = err
    /\ UNCHANGED <<call, trainVars>>

\* an exception leaves train: nothing in train catches it
Raise(err) ==
    /\ pc' = "failed"
    /\ ret' = err
    /\ UNCHANGED <<call, trainVars>>

\* (row, col) lies at least (vstep, hstep) from the border of X
Interior(X, rc, patch_size) ==
    /\ step(patch_size[1]) <= rc[1]
    /\ rc[1] < X.shape[1] - step(patch_size[1])
    /\ step(patch_size[2]) <= rc[2]
    /\ rc[2] < X.shape[2] - step(patch_size[2])

\* the rows of a batch that a group has written
Written(rows) == {n \in 1..Len(rows) : rows[n].group # -1}

\* every patch of the batch was sliced around an interior pixel of its
\* image, X for the patches of the first and Z for those of the second
BatchInterior(rows, X, Z, patch_size) ==
    \A n \in Written(rows), side \in 1..2 :
        Interior(IF rows[n].img[side] = "X" THEN X ELSE Z, rows[n].at[side],
                 patch_size)

\* the (image, scanner tag) of the patches of the batch: the image, "X" the
\* first and "Z" the second given to sample_pairs, with the tag in a or b
BatchTags(rows) ==
    {<<rows[n].img[1], rows[n].a>> : n \in Written(rows)}
    \cup {<<rows[n].img[2], rows[n].b>> : n \in Written(rows)}

\* P, S = self.sample_pairs(X, ..., Z, ...) returned r; then
\* self.net.fit(x=P, y=S) is entered.  The logs keep, for each call, the
\* step it belongs to (kind, i and the other subject), num_draw and the
\* length of the batch; of the batch, samples keeps whether its patches
\* were sliced around interior pixels, and fits its scanner tags.
SampleThenFit(r, kind, other, num_draw, inFit, X, Z) ==
    IF ~r.ok THEN Raise(r)
    ELSE /\ samples' = Append(samples, [kind |-> kind, i |-> i, other |-> other,
                                         num_draw |-> num_draw, N |-> Len(r.rows),
                                         interior |-> BatchInterior(r.rows, X, Z,
                                                                    call.patch_size)])
         /\ fits' = Append(fits, [kind |-> kind, i |-> i, other |-> other,
                                   N |-> Len(r.rows), tags |-> BatchTags(r.rows)])
         /\ pc' = inFit
         /\ UNCHANGED <<call, ret, i, j, Yi>>

\* num_src_sub = X.shape[0]; the loop over i starts
Train ==
    /\ pc = "call"
    /\ call.op = "train"
    /\ i' = 0
    /\ pc' = "source"
    /\ UNCHANGED <<call, ret, j, Yi, fits, samples>>

\* for i in range(num_src_sub): Yi = self.matrix2sparse(Y[i]); after the
\* last subject, print('Training complete.')
SourceSubject ==
    /\ pc = "source"
    /\ IF i < Len(call.X)
       THEN /\ Yi' = matrix2sparse(call.Y[i + 1], <<0, 0>>, FALSE).val
            /\ j' = 0
            /\ pc' = "target"
            /\ UNCHANGED <<call, ret, i, fits, samples>>
       ELSE /\ pc' = "done"
            /\ ret' = [ok |-> TRUE]
            /\ UNCHANGED <<call, trainVars>>

\* the outcomes of sample_pairs(X, y, Z, u, num_draw) over the draws
\* rn.choice can make
PairsOutcomes(X, y, Z, u, num_draw, patch_size, nep50) ==
    {sample_pairs(X, y, Z, u, num_draw, patch_size, nep50, fcast, draws) :
        draws \in PairDraws(y, u, num_draw), fcast \in FloatCasts}

\* the body of the loop over j from Uj = self.matrix2sparse(U[j]) on, up
\* to the entry of net.fit
TargetStep(Uj) ==
    IF call.num_targets > Len(Uj)
    THEN Raise([ok |-> FALSE, err |-> "ValueError: More targets than labels asked."])
    ELSE \E r \in PairsOutcomes(call.X[i + 1], Yi, call.Z[j + 1], Uj,
                                 <<call.num_draw, call.num_targets>>,
                                 call.patch_size, call.nep50) :
            SampleThenFit(r, "target", j, <<call.num_draw, call.num_targets>>,
                          "fit", call.X[i + 1], call.Z[j + 1])

\* for j in range(num_tgt_sub): ...; after the last target subject the code
\* goes on to the test on num_src_sub
TargetSubject ==
    /\ pc = "target"
    /\ IF j < Len(call.Z)
       THEN TargetStep(matrix2sparse(call.U[j + 1], <<0, 0>>, FALSE).val)
       ELSE /\ pc' = "cross"
            /\ UNCHANGED <<call, ret, trainVars>>

\* self.net.fit returns for a source-target batch: next j
FitReturns ==
    /\ pc = "fit"
    /\ j' = j + 1
    /\ pc' = "target"
    /\ UNCHANGED <<call, ret, i, Yi, fits, samples>>

\* self.net.fit raises
FitRaises ==
    /\ pc \in {"fit", "fitcross"}
    /\ Raise([ok |-> FALSE, err |-> "Error raised by net.fit"])

\* the source-source step with the other subject o, up to the entry of
\* net.fit
CrossStep(o, Yo) ==
    \E r \in PairsOutcomes(call.X[i + 1], Yi, call.X[o + 1], Yo,
                            <<call.num_draw, call.num_draw>>,
                            call.patch_size, call.nep50) :
        SampleThenFit(r, "source", o, <<call.num_draw, call.num_draw>>,
                      "fitcross", call.X[i + 1], call.X[o + 1])

\* the other subject drawn among all the source subjects
OtherSources_any(num_src_sub, this) == 0..num_src_sub - 1

\* np.random.choice(np.setdiff1d(np.arange(num_src_sub), i), size=1)[0]
OtherSources(num_src_sub, this) == setdiff1d(0..num_src_sub - 1, {this})

\* if num_src_sub > 1: draw another source subject o, sample pairs between
\* subjects i and o and fit; otherwise next i
CrossSourcePair ==
    /\ pc = "cross"
    /\ IF Len(call.X) > 1
       THEN \E o \in OtherSources(Len(call.X), i) :
               CrossStep(o, matrix2sparse(call.Y[o + 1], <<0, 0>>, FALSE).val)
       ELSE /\ i' = i + 1
            /\ pc' = "source"
            /\ UNCHANGED <<call, ret, j, Yi, fits, samples>>

\* self.net.fit returns for a source-source batch: next i
FitCrossReturns ==
    /\ pc = "fitcross"
    /\ i' = i + 1
    /\ pc' = "source"
    /\ UNCHANGED <<call, ret, j, Yi, fits, samples>>

\* the shape of the scans and label images train is given
TrainShape == <<3, 3>>

\* the source label images drawn: one pixel or MaxPer pixels of each of
\* the classes 1 and 2
SourceLabels ==
    {LabelImage(TrainShape[1], TrainShape[2], c) :
        c \in {[d \in Classes |-> IF d = 3 THEN 0 ELSE 1],
               [d \in Classes |-> IF d = 3 THEN 0 ELSE MaxPer]}}

\* the target label images drawn: nothing labelled, one pixel of class 3,
\* one pixel of each of classes 1 and 2, or MaxPer pixels of each class
TargetLabels ==
    {LabelImage(TrainShape[1], TrainShape[2], c) :
        c \in {[d \in Classes |-> 0],
               [d \in Classes |-> IF d = 3 THEN 1 ELSE 0],
               [d \in Classes |-> IF d = 3 THEN 0 ELSE 1],
               [d \in Classes |-> MaxPer]}}

\* the values of num_targets drawn, the last above the number of pixels
TargetCounts == {1, 2, TrainShape[1] * TrainShape[2] + 1}

InitTrain ==
    /\ pc = "call"
    /\ \E nS \in 1..MaxSrc, nT \in 1..MaxTgt :
         \E Y \in [1..nS -> SourceLabels], U \in [1..nT -> TargetLabels],
            num_targets \in TargetCounts, num_draw \in 1..MaxDraw,
            patch_size \in PairPatchSizes, nep50 \in BOOLEAN :
            call = [op |-> "train",
                    X |-> [k \in 1..nS |-> Image(TrainShape[1], TrainShape[2], "ramp")],
                    Y |-> Y,
                    Z |-> [k \in 1..nT |-> Image(TrainShape[1], TrainShape[2], "rampZ")],
                    U |-> U,
                    num_targets |-> num_targets, num_draw |-> num_draw,
                    patch_size |-> patch_size, nep50 |-> nep50]
    /\ ret = idle
    /\ trainIdle

NextTrain ==
    \/ Train
    \/ SourceSubject
    \/ TargetSubject
    \/ FitReturns
    \/ FitRaises
    \/ CrossSourcePair
    \/ FitCrossReturns

SpecTrain == InitTrain /\ [][NextTrain]_vars

-----------------------------------------------------------------------------
(* segment_image and feedforward.  The network and the classifier are
   external: the classifier is given by what its predict method does. *)

\* np.pad(X, pad_width=((vstep, vstep), (hstep, hstep)), mode='constant')
pad(X, vstep, hstep) ==
    [shape |-> <<X.shape[1] + 2 * vstep, X.shape[2] + 2 * hstep>>,
     v |-> [a \in 1..X.shape[1] + 2 * vstep |->
              [b \in 1..X.shape[2] + 2 * hstep |->
                 IF /\ vstep < a /\ a <= vstep + X.shape[1]
                    /\ hstep < b /\ b <= hstep + X.shape[2]
                 THEN X.v[a - vstep][b - hstep]
                 ELSE 0]]]

\* the patches of X at the nrows x ncols positions of their top left pixel,
\* in row-major order of the positions
PatchGrid(X, patch_size, nrows, ncols) ==
    [ok |-> TRUE,
     ndim |-> 3,
     shape |-> <<nrows * ncols, patch_size[1], patch_size[2]>>,
     v |-> [n \in 1..nrows * ncols |->
              Slice2D(X, (n - 1) \div ncols,
                         ((n - 1) \div ncols) + patch_size[1],
                         (n - 1) % ncols,
                         ((n - 1) % ncols) + patch_size[2])]]

\* sf.extract_patches_2d(X, patch_size) of a 2-D image: every patch of the
\* image, in an array of shape (number of patches, patch height, patch
\* width)
extract_patches_2d(X, patch_size) ==
    IF patch_size[1] > X.shape[1] \/ patch_size[2] > X.shape[2]
    THEN [ok |-> FALSE,
          err |-> "ValueError: the patch should be less than the image"]
    ELSE PatchGrid(X, patch_size, X.shape[1] - patch_size[1] + 1,
                   X.shape[2] - patch_size[2] + 1)

\* feedforward(patches, scan_ID): an array of fewer than 4 axes is
\* rejected; otherwise the network gives one row per patch
feedforward(patches) ==
    IF patches.ndim < 4
    THEN [ok |-> FALSE,
          err |-> "ValueError: Patches array has less than 4 dimensions."]
    ELSE [ok |-> TRUE, ndim |-> 2, shape |-> <<patches.shape[1]>>]

\* the number of columns of the posteriors a classifier gives
NumPosteriors == Cardinality(Classes)

\* model.predict(patches) of the classifier given: it raises, gives one
\* label per row or gives one row of posteriors per row
predict(model, patches) ==
    IF model = "raises"
    THEN [ok |-> FALSE, err |-> "Error raised by model.predict"]
    ELSE IF model = "labels"
    THEN [ok |-> TRUE, ndim |-> 1, size |-> patches.shape[1]]
    ELSE [ok |-> TRUE, ndim |-> 2, size |-> patches.shape[1] * NumPosteriors]

\* np.argmax(preds, axis=1) + np.min(self.classes)
argmax1(preds) ==
    IF preds.ndim < 2
    THEN [ok |-> FALSE, err |-> "AxisError: axis 1 is out of bounds"]
    ELSE [ok |-> TRUE, ndim |-> 1, size |-> preds.size \div NumPosteriors]

\* np.reshape(preds, imsize)
reshape(preds, imsize) ==
    IF preds.size # imsize[1] * imsize[2]
    THEN [ok |-> FALSE, err |-> "ValueError: cannot reshape array"]
    ELSE [ok |-> TRUE, shape |-> imsize]

\* the predictions mapped to their maximum a posteriori, reshaped
MapReshape(preds, imsize) ==
    IF ~preds.ok THEN preds ELSE reshape(preds, imsize)

\* segment_image from preds = model.predict(patches) on
Classify(preds, mapost, imsize) ==
    IF ~preds.ok THEN preds
    ELSE IF ~mapost THEN reshape(preds, imsize)
    ELSE MapReshape(argmax1(preds), imsize)

\* segment_image from the patches on, embedded if feed is set
PredictPatches(patches, model, mapost, imsize) ==
    IF ~patches.ok THEN patches
    ELSE Classify(predict(model, patches), mapost, imsize)

\* the patches the classifier is given
Embedded(patches, feed) ==
    IF patches.ok /\ feed THEN feedforward(patches) ELSE patches

\* segment_image(X, model, feed, mapost) with self.patch_size = patch_size
segment_image(X, model, feed, mapost, patch_size) ==
    PredictPatches(
        Embedded(extract_patches_2d(pad(X, step(patch_size[1]),
                                        step(patch_size[2])),
                                    patch_size),
                 feed),
        model, mapost, X.shape)

\* the number of patches segment_image extracts from X
NumPatches(X, patch_size) ==
    LET patches == extract_patches_2d(pad(X, step(patch_size[1]),
                                          step(patch_size[2])), patch_size)
    IN  IF patches.ok THEN patches.shape[1] ELSE -1

InitSegment ==
    /\ pc = "call"
    /\ \E h \in 1..MaxH, w \in 1..MaxW, ph \in 1..MaxPatch, pw \in 1..MaxPatch,
          feed \in BOOLEAN, mapost \in BOOLEAN,
          model \in {"labels", "posteriors", "raises"} :
         call = [op |-> "segment_image", X |-> Image(h, w, "ramp"),
                 model |-> model, feed |-> feed, mapost |-> mapost,
                 patch_size |-> <<ph, pw>>]
    /\ ret = idle
    /\ trainIdle

CallSegmentImage ==
    /\ pc = "call"
    /\ call.op = "segment_image"
    /\ ret' = segment_image(call.X, call.model, call.feed, call.mapost,
                            call.patch_size)
    /\ pc' = "done"
    /\ UNCHANGED <<call, trainVars>>

NextSegment == CallSegmentImage

SpecSegment == InitSegment /\ [][NextSegment]_vars

-----------------------------------------------------------------------------
(* Claims *)

\* the cells of X that lie inside the edge
InsideEdge(X, edge) ==
    {rc \in (0..X.shape[1] - 1) \X (0..X.shape[2] - 1) :
        /\ edge[1] <= rc[1] /\ rc[1] < X.shape[1] - edge[1]
        /\ edge[2] <= rc[2] /\ rc[2] < X.shape[2] - edge[2]}

\* the cells matrix2sparse is to emit
Emitted(X, edge, remove_nans) ==
    {rc \in InsideEdge(X, edge) :
        ~(remove_nans /\ isnan(X.v[rc[1] + 1][rc[2] + 1]))}

\* the number of rows of a sparse array sX that carry class c
CountClass(sX, c) == Cardinality({n \in 1..Len(sX) : sX[n][3] = c})

\* the number of cells of X that carry class c
CountCells(X, c) ==
    Cardinality({rc \in (0..X.shape[1] - 1) \X (0..X.shape[2] - 1) :
                    X.v[rc[1] + 1][rc[2] + 1] = c})

\* C9: matrix2sparse returns, in row-major order, exactly one row
\* (row, col, X[row, col]) for each cell inside the edge, leaving out the NaN
\* cells when remove_nans is set; so no row lies in the edge, and with no NaN
\* and edge (0, 0) there are h*w rows that carry the classes of the image.
C9_SparseExactRowMajor ==
    (pc = "done" /\ call.op = "matrix2sparse") =>
        LET X  == call.X
            sX == ret.val
            E  == Emitted(X, call.edge, call.remove_nans)
        IN  /\ ret.ok
            /\ Len(sX) = Cardinality(E)
            /\ \A n \in 1..Len(sX) :
                  /\ <<sX[n][1], sX[n][2]>> \in E
                  /\ sX[n][3] = X.v[sX[n][1] + 1][sX[n][2] + 1]
            /\ \A n \in 1..Len(sX) - 1 :
                  \/ sX[n][1] < sX[n + 1][1]
                  \/ sX[n][1] = sX[n + 1][1] /\ sX[n][2] < sX[n + 1][2]
            /\ (call.edge = <<0, 0>> /\ CountCells(X, NaN) = 0)
                 => /\ Len(sX) = X.shape[1] * X.shape[2]
                    /\ \A c \in Classes : CountClass(sX, c) = CountCells(X, c)

\* a 3 x 2 label image with a NaN, cut by an edge of one row, NaN rows removed
C9_Witness ==
    /\ pc = "done" /\ call.op = "matrix2sparse"
    /\ call.X.shape = <<3, 2>> /\ call.edge = <<1, 0>> /\ call.remove_nans
    /\ call.X.v[2] = <<NaN, 2>>
    /\ ret.ok /\ ret.val = << <<1, 1, 2>> >>

\* C8: subsample_rows raises whenever num_draw exceeds the number of rows,
\* and otherwise returns exactly num_draw rows of X taken at pairwise
\* distinct row indices; num_draw equal to the row count gives a permutation
\* of all rows.
C8_RowsWithoutReplacement ==
    (pc = "done" /\ call.op = "subsample_rows") =>
        LET N == Len(call.X)
        IN  IF call.num_draw > N
            THEN ~ret.ok
            ELSE /\ ret.ok
                 /\ Len(ret.val) = call.num_draw
                 /\ Len(ret.index) = call.num_draw
                 /\ \A n \in 1..Len(ret.val) :
                       /\ ret.index[n] \in 0..N - 1
                       /\ ret.val[n] = call.X[ret.index[n] + 1]
                 /\ \A a, b \in 1..Len(ret.index) :
                       a # b => ret.index[a] # ret.index[b]
                 /\ call.num_draw = N =>
                       {ret.index[n] : n \in 1..N} = 0..N - 1

\* three of four rows drawn, out of order
C8_Witness ==
    /\ pc = "done" /\ call.op = "subsample_rows"
    /\ Len(call.X) = 4 /\ call.num_draw = 3
    /\ ret.ok /\ ret.index = <<2, 0, 3>>

\* a call that asks for more rows than there are
C8_WitnessRaise ==
    /\ pc = "done" /\ call.op = "subsample_rows"
    /\ Len(call.X) = 2 /\ call.num_draw = 3 /\ ~ret.ok

\* the (row, col) each entry of an index array stands for
CoordsOf(X, index) ==
    [n \in 1..Len(index.v) |->
        IF index.ndim = 1
        THEN <<index.v[n] \div X.shape[2], index.v[n] % X.shape[2]>>
        ELSE index.v[n]]

\* image[row - vstep : row + vstep + 1, col - hstep : col + hstep + 1] of an
\* interior (row, col), as a patch of shape patchH x patchW x 1
PatchAt(X, rc, patch_size) ==
    [shape |-> <<patch_size[1], patch_size[2], 1>>,
     v |-> [p \in 1..patch_size[1] |-> [q \in 1..patch_size[2] |->
              X.v[rc[1] - step(patch_size[1]) + p]
                 [rc[2] - step(patch_size[2]) + q]]]]

\* the call is index2patch on N >= 1 interior coordinates
InteriorCall ==
    /\ call.op = "index2patch"
    /\ call.index.ndim \in {1, 2}
    /\ Len(call.index.v) >= 1
    /\ \A n \in 1..Len(call.index.v) :
          /\ call.index.ndim = 1 =>
                call.index.v[n] < call.X.shape[1] * call.X.shape[2]
          /\ Interior(call.X, CoordsOf(call.X, call.index)[n], call.patch_size)

\* C7: on N >= 1 interior coordinates, linear or (row, col), index2patch
\* returns N patches of shape patchH x patchW x 1, patch n being the image
\* around (row_n, col_n), so that both representations give the same patch.
C7_PatchAtCoordinate ==
    (pc = "done" /\ InteriorCall) =>
        /\ ret.ok
        /\ Len(ret.val) = Len(call.index.v)
        /\ \A n \in 1..Len(ret.val) :
              /\ ret.val[n].shape = <<call.patch_size[1], call.patch_size[2], 1>>
              /\ ret.val[n] = PatchAt(call.X, CoordsOf(call.X, call.index)[n],
                                       call.patch_size)

\* the part of C7 that the code keeps: the (row, col) representation
C7_PatchAtRowCol ==
    (pc = "done" /\ InteriorCall /\ call.index.ndim = 2) =>
        /\ ret.ok
        /\ Len(ret.val) = Len(call.index.v)
        /\ \A n \in 1..Len(ret.val) :
              ret.val[n] = PatchAt(call.X, call.index.v[n], call.patch_size)

\* a sample_pairs call has returned without error
PairsReturned == pc = "done" /\ call.op = "sample_pairs" /\ ret.ok

\* the number of rows of a returned batch with similarity label sim
CountS(rows, sim) == Cardinality({n \in 1..Len(rows) : rows[n].S = sim})

\* nSrc^2 + nSrc*nTgt + nTgt^2
CombsPerClass(num_draw) ==
    num_draw[1] * num_draw[1] + num_draw[1] * num_draw[2]
    + num_draw[2] * num_draw[2]

\* C1: a successful sample_pairs call with at least two common classes
\* returns |C| * (nSrc^2 + nSrc*nTgt + nTgt^2) pairs with S = 1 and
\* |C| * (|C| - 1) * (nSrc^2 + nSrc*nTgt + nTgt^2) pairs with S = 0.
C1_PairCounts ==
    (PairsReturned /\ Len(ret.classes) >= 2) =>
        /\ CountS(ret.rows, 1) =
              Len(ret.classes) * CombsPerClass(call.num_draw)
        /\ CountS(ret.rows, 0) =
              Len(ret.classes) * (Len(ret.classes) - 1)
              * CombsPerClass(call.num_draw)

\* the class the sparse label array y gives the pixel (row, col) = rc, and 0
\* if it has no row for the pixel
ClassAt(y, rc) ==
    IF \E n \in 1..Len(y) : y[n][1] = rc[1] /\ y[n][2] = rc[2]
    THEN y[CHOOSE n \in 1..Len(y) : y[n][1] = rc[1] /\ y[n][2] = rc[2]][3]
    ELSE 0

\* the class, in the label array of the image a patch of a batch row was
\* taken from, of the pixel the patch was sliced around; 0 if the row was
\* never written
ClassOfPatch(row, side) ==
    IF row.group = -1 THEN 0
    ELSE ClassAt(IF row.img[side] = "X" THEN call.y ELSE call.u, row.at[side])

\* C2: in a returned batch, the two patches of a row with S = 1 were
\* extracted at pixels of one class, and those of a row with S = 0 at pixels
\* of two different common classes.
C2_LabelsMatchClasses ==
    PairsReturned =>
        \A n \in 1..Len(ret.rows) :
            LET cA == ClassOfPatch(ret.rows[n], 1)
                cB == ClassOfPatch(ret.rows[n], 2)
                C  == {ret.classes[k] : k \in 1..Len(ret.classes)}
            IN  /\ cA \in C /\ cB \in C
                /\ ret.rows[n].S = 1 => cA = cB
                /\ ret.rows[n].S = 0 => cA # cB

\* C3: a sample_pairs call that returns without error returns arrays of one
\* common length N > 0 (the rows of the batch), with every S in {0, 1}.
C3_BatchNonEmpty ==
    PairsReturned =>
        /\ Len(ret.rows) > 0
        /\ \A n \in 1..Len(ret.rows) : ret.rows[n].S \in {0, 1}

\* the number of pixels of a label image that carry a label (not NaN)
Labelled(U) == U.shape[1] * U.shape[2] - CountCells(U, NaN)

\* train has not gone beyond the step of source subject 0 and target
\* subject j0, and has not entered net.fit in it
NotBeyond(j0) ==
    /\ i = 0 /\ j <= j0
    /\ pc \in {"call", "source", "target", "fit"}
    /\ pc = "fit" => j < j0

\* C4: when num_targets exceeds the number of labelled (not NaN) pixels of a
\* target subject, the step of that subject raises: train makes no fit call
\* for it or after it, and ends failed there.
C4_UnlabelledNotCounted ==
    call.op = "train" =>
        \A j0 \in 0..Len(call.Z) - 1 :
            call.num_targets > Labelled(call.U[j0 + 1]) =>
                /\ \A k \in 1..Len(fits) :
                      /\ fits[k].i = 0
                      /\ fits[k].kind = "target"
                      /\ fits[k].other < j0
                /\ pc # "failed" => NotBeyond(j0)

\* the number of fit calls per source subject
FitsPerSource ==
    Len(call.Z) + (IF Len(call.X) > 1 THEN 1 ELSE 0)

\* the k-th sample_pairs or fit call f belongs to the k-th step of the
\* schedule: source subjects ascending, for each the target subjects
\* ascending and then, with several source subjects, one other source
\* subject
Scheduled(f, k) ==
    LET ii  == (k - 1) \div FitsPerSource
        pos == (k - 1) % FitsPerSource
    IN  /\ f.i = ii
        /\ IF pos < Len(call.Z)
           THEN f.kind = "target" /\ f.other = pos
           ELSE /\ f.kind = "source"
                /\ f.other \in 0..Len(call.X) - 1
                /\ f.other # ii

\* the calls made so far follow the schedule, each fit after a sample_pairs
\* call with the num_draw of its step, and a completed run has made them all
FollowsSchedule ==
    call.op = "train" =>
        /\ Len(samples) = Len(fits)
        /\ \A k \in 1..Len(fits) :
              /\ Scheduled(fits[k], k)
              /\ Scheduled(samples[k], k)
              /\ samples[k].other = fits[k].other
              /\ samples[k].num_draw =
                    IF fits[k].kind = "target"
                    THEN <<call.num_draw, call.num_targets>>
                    ELSE <<call.num_draw, call.num_draw>>
        /\ Len(fits) <= Len(call.X) * FitsPerSource
        /\ pc = "done" => Len(fits) = Len(call.X) * FitsPerSource

\* the number of steps train has taken when it stands at pc with i and j
Clock ==
    IF pc = "call" THEN 0
    ELSE 1 + i * (2 * Len(call.Z) + 4)
         + (CASE pc = "source" -> 0
              [] pc = "target" -> 1 + 2 * j
              [] pc = "fit" -> 2 + 2 * j
              [] pc = "cross" -> 2 * Len(call.Z) + 2
              [] pc = "fitcross" -> 2 * Len(call.Z) + 3
              [] OTHER -> 1)

\* the random draws of the step train stands at have an outcome: rn.choice
\* in sample_pairs, and np.random.choice among the other source subjects
DrawsExist ==
    /\ (pc = "target" /\ j < Len(call.Z)) =>
          PairDraws(Yi, matrix2sparse(call.U[j + 1], <<0, 0>>, FALSE).val,
                    <<call.num_draw, call.num_targets>>) # {}
    /\ (pc = "cross" /\ Len(call.X) > 1) =>
          /\ OtherSources(Len(call.X), i) # {}
          /\ \A o \in OtherSources(Len(call.X), i) :
                PairDraws(Yi, matrix2sparse(call.Y[o + 1], <<0, 0>>, FALSE).val,
                          <<call.num_draw, call.num_draw>>) # {}

\* a run that has not ended, with 'Training complete.' or an exception,
\* stands at a step of the loop that has an outcome
NotStuck ==
    call.op = "train" =>
        /\ pc \in {"call", "source", "target", "fit", "cross", "fitcross",
                    "done", "failed"}
        /\ pc \in {"target", "fit", "cross", "fitcross"} => i < Len(call.X)
        /\ pc = "fit" => j < Len(call.Z)
        /\ DrawsExist

\* C5: train visits the source subjects in ascending order, makes for each
\* one sample_pairs(num_draw, num_targets) + fit per target subject in
\* ascending order and then, iff nS > 1, one sample_pairs(num_draw, num_draw)
\* + fit with another source subject o # i; a run in which no step fails
\* goes on, step after step of the schedule, to the end, which it reaches
\* with nS*nT + (nS if nS > 1 else 0) fit calls.
C5_TrainingSchedule ==
    /\ []FollowsSchedule
    /\ []NotStuck
    /\ [][pc' # "failed" => Clock' > Clock]_vars

\* a completed run over three source and two target subjects: nine fit
\* calls, the source-source steps of subjects 0 and 1 both with subject 2
C5_Witness ==
    /\ call.op = "train" /\ pc = "done"
    /\ Len(call.X) = 3 /\ Len(call.Z) = 2
    /\ Len(fits) = 9
    /\ fits[3].kind = "source" /\ fits[3].other = 2
    /\ fits[6].kind = "source" /\ fits[6].other = 2
    /\ fits[1].N > 0

\* an exception has left train
Raised == "err" \in DOMAIN ret

\* C6: an error raised during train is fatal: the step that raises ends the
\* run as failed, and after it no sample_pairs or fit call is made and the
\* end ('Training complete.') is never reached.
C6_ErrorsAreFatal ==
    [][/\ Raised' => pc' = "failed"
       /\ Raised => /\ pc' = "failed"
                    /\ fits' = fits
                    /\ samples' = samples]_vars

\* net.fit raised in the second step of a run of four steps
C6_Witness ==
    /\ call.op = "train" /\ pc = "failed"
    /\ Raised /\ ret.err = "Error raised by net.fit"
    /\ Len(call.X) = 2 /\ Len(call.Z) = 1
    /\ Len(fits) = 2 /\ Len(samples) = 2

\* the call is segment_image with odd patch dimensions >= 3 and a
\* classifier whose predict gives what mapost asks for: one label per patch,
\* or posteriors when mapost is set
SegmentCall ==
    /\ call.op = "segment_image"
    /\ call.patch_size[1] >= 3 /\ call.patch_size[1] % 2 = 1
    /\ call.patch_size[2] >= 3 /\ call.patch_size[2] % 2 = 1
    /\ call.model = IF call.mapost THEN "posteriors" ELSE "labels"

\* C10: segment_image on an H x W image with odd patch dimensions >= 3
\* extracts H*W patches and returns an array of shape H x W, with feed set
\* as well as not.
C10_SegmentKeepsShape ==
    (pc = "done" /\ SegmentCall) =>
        /\ NumPatches(call.X, call.patch_size)
             = call.X.shape[1] * call.X.shape[2]
        /\ ret.ok
        /\ ret.shape = call.X.shape

\* the part of C10 the code keeps: with feed = False
C10_SegmentKeepsShapeUnfed ==
    (pc = "done" /\ SegmentCall /\ ~call.feed) =>
        /\ NumPatches(call.X, call.patch_size)
             = call.X.shape[1] * call.X.shape[2]
        /\ ret.ok
        /\ ret.shape = call.X.shape

\* the call is sample_pairs on label arrays that share exactly the class c,
\* with at least nSrc rows of it in y and nTgt rows of it in u
OneCommonClass(c) ==
    /\ call.op = "sample_pairs"
    /\ CommonClasses(call.y, call.u) = <<c>>
    /\ CountClass(call.y, c) >= call.num_draw[1]
    /\ CountClass(call.u, c) >= call.num_draw[2]

\* the number of rows of a batch with the scanner tags ta and tb
CountTags(rows, ta, tb) ==
    Cardinality({n \in 1..Len(rows) : rows[n].a = ta /\ rows[n].b = tb})

\* C11: with exactly one common class, of which the label arrays have at
\* least nSrc and nTgt rows, sample_pairs succeeds and returns only similar
\* pairs: nSrc^2 source-source, nSrc*nTgt source-target and nTgt^2
\* target-target pairs, all with S = 1.
C11_SingleClassBatch ==
    \A c \in Classes :
        (pc = "done" /\ OneCommonClass(c)) =>
            /\ ret.ok
            /\ Len(ret.rows) = CombsPerClass(call.num_draw)
            /\ CountS(ret.rows, 1) = Len(ret.rows)
            /\ CountTags(ret.rows, 0, 0) = call.num_draw[1] * call.num_draw[1]
            /\ CountTags(ret.rows, 0, 1) = call.num_draw[1] * call.num_draw[2]
            /\ CountTags(ret.rows, 1, 1) = call.num_draw[2] * call.num_draw[2]

\* C12: index2patch raises when it is given no coordinate (an index array
\* of length 0) and when the index array has neither 1 nor 2 axes; it never
\* returns an array of zero patches.
C12_EmptyIndexRejected ==
    (pc = "done" /\ call.op = "index2patch") =>
        /\ Len(call.index.v) = 0 => ~ret.ok
        /\ call.index.ndim \notin {1, 2} => ~ret.ok
        /\ ret.ok => Len(ret.val) > 0

\* the part of C12 the code keeps: the number of axes is checked
C12_RankChecked ==
    (pc = "done" /\ call.op = "index2patch" /\ call.index.ndim \notin {1, 2})
        => ~ret.ok

\* C13: every pixel around which train, through sample_pairs, slices a
\* patch lies at least (vstep, hstep) from the border of its image:
\* vstep <= row < height - vstep and hstep <= col < width - hstep, so the
\* slicing of a patch never raises and never leaves the image.
C13_TrainExtractsInterior ==
    call.op = "train" =>
        /\ \A k \in 1..Len(samples) : samples[k].interior
        /\ (Raised /\ "at" \in DOMAIN ret) =>
              Interior(call.X[1], ret.at, call.patch_size)

\* the scanner of the image a patch of a batch was cut from: in a
\* source-target step the second image is a target scan, in a source-source
\* step both images are source scans
ScannerOf(kind, img) ==
    IF img = "Z" /\ kind = "target" THEN 1 ELSE 0

\* C14: in every batch train passes to fit, the scanner tag of each patch
\* is 0 if it was cut from a source scan and 1 if from a target scan; in
\* the source-source step every pair is tagged 0/0.
C14_TagsNameTheScanner ==
    call.op = "train" =>
        \A k \in 1..Len(fits) :
            \A t \in fits[k].tags : t[2] = ScannerOf(fits[k].kind, t[1])

\* the part of C14 the code keeps: the batches of the source-target steps
C14_TargetStepTags ==
    call.op = "train" =>
        \A k \in 1..Len(fits) :
            fits[k].kind = "target" =>
                \A t \in fits[k].tags : t[2] = ScannerOf("target", t[1])

\* the preconditions of sample_pairs hold for the call: at least two common
\* classes, each with at least nSrc rows in y and nTgt rows in u, and every
\* pixel of a common class interior to its image
PairsPreconditions ==
    /\ call.op = "sample_pairs"
    /\ Len(CommonClasses(call.y, call.u)) >= 2
    /\ \A k \in 1..Len(CommonClasses(call.y, call.u)) :
          LET c == CommonClasses(call.y, call.u)[k]
          IN  /\ CountClass(call.y, c) >= call.num_draw[1]
              /\ CountClass(call.u, c) >= call.num_draw[2]
              /\ \A n \in 1..Len(call.y) :
                    call.y[n][3] = c =>
                       Interior(call.X, <<call.y[n][1], call.y[n][2]>>,
                                call.patch_size)
              /\ \A n \in 1..Len(call.u) :
                    call.u[n][3] = c =>
                       Interior(call.Z, <<call.u[n][1], call.u[n][2]>>,
                                call.patch_size)

\* the number of rows of a batch that hold the group of class c whose
\* patches come from the images imgs
RowsOfGroup(rows, c, imgs) ==
    Cardinality({n \in 1..Len(rows) :
                    rows[n].cls = <<c, c>> /\ rows[n].img = imgs})

\* the call raised on the assignment of a group to its slice of the batch
WriteFailed == ~ret.ok /\ "ix" \in DOMAIN ret

\* C15: under its preconditions sample_pairs writes each group of pairs to
\* a range of rows of its own: no write falls outside the arrays (no
\* assignment to a slice of the batch raises) and no group overwrites
\* another, so the returned batch holds every row of every group written,
\* also when nSrc # nTgt.
C15_GroupsDisjoint ==
    (pc = "done" /\ PairsPreconditions) =>
        /\ ~WriteFailed
        /\ ret.ok =>
              \A k \in 1..Len(ret.classes) :
                 /\ RowsOfGroup(ret.rows, ret.classes[k], <<"X", "X">>)
                       = call.num_draw[1] * call.num_draw[1]
                 /\ RowsOfGroup(ret.rows, ret.classes[k], <<"X", "Z">>)
                       = call.num_draw[1] * call.num_draw[2]
                 /\ RowsOfGroup(ret.rows, ret.classes[k], <<"Z", "Z">>)
                       = call.num_draw[2] * call.num_draw[2]

\* C15, equal draws: when nSrc = nTgt the groups have one size and the
\* slices cnt * g .. (cnt + 1) * g - 1 are disjoint and inside the batch.
C15_EqualDrawsDisjoint ==
    (pc = "done" /\ PairsPreconditions /\ call.num_draw[1] = call.num_draw[2]) =>
        /\ ~WriteFailed
        /\ ret.ok =>
              \A k \in 1..Len(ret.classes) :
                 RowsOfGroup(ret.rows, ret.classes[k], <<"X", "Z">>)
                    = call.num_draw[1] * call.num_draw[2]

\* the sparse label array lab has a row for the pixel rc with class c
LabelledAs(lab, rc, c) ==
    \E m \in 1..Len(lab) : lab[m] = <<rc[1], rc[2], c>>

\* the patch on one side of a batch row was sliced around a pixel that the
\* label array of its image gives the class of the row
AtLabelledPixel(row, side) ==
    LabelledAs(IF row.img[side] = "X" THEN call.y ELSE call.u,
               row.at[side], row.cls[side])

\* the call is sample_pairs on the images of more than 256 rows and columns
WideCall == call.op = "sample_pairs" /\ "gen" \in DOMAIN call.X

\* C16: each (row, col) around which sample_pairs slices a patch for class
\* c is the (row, col) of a row of class c of the label array of that
\* image, whatever the height and width of the image: coordinates of 256
\* and more are not reduced.
C16_CoordinatesKept ==
    (pc = "done" /\ WideCall /\ ret.ok) =>
        \A n \in Written(ret.rows) :
            AtLabelledPixel(ret.rows[n], 1) /\ AtLabelledPixel(ret.rows[n], 2)

\* the part of C16 the code keeps: label arrays whose coordinates are all
\* below 256
C16_BelowLimitKept ==
    (/\ pc = "done" /\ WideCall /\ ret.ok
     /\ \A m \in 1..Len(call.y) : call.y[m][1] < 256 /\ call.y[m][2] < 256
     /\ \A m \in 1..Len(call.u) : call.u[m][1] < 256 /\ call.u[m][2] < 256) =>
        \A n \in Written(ret.rows) :
            AtLabelledPixel(ret.rows[n], 1) /\ AtLabelledPixel(ret.rows[n], 2)

====
